---- MODULE Spec2Model ----
(***************************************************************************)
(* A model of ajax(options), the XMLHttpRequest promise helper with Comet  *)
(* support (version 1.1).  Versions 1.0 are the same function without the  *)
(* Comet reader; they are the runs of this model in which options.comet is *)
(* not a function.                                                         *)
(*                                                                         *)
(* JavaScript strings that the code takes apart (request bodies, response  *)
(* text) are sequences of one-character strings.  Strings the code only    *)
(* compares or passes on (header values, status text, method names) are    *)
(* TLA+ strings.                                                           *)
(***************************************************************************)
EXTENDS Integers, Sequences, FiniteSets, TLC

(***************************************************************************)
(* Bounds of the model.                                                    *)
(***************************************************************************)
\* longest response text the transport delivers
MaxLen == 4
\* most entries of a plain-object request body
MaxEntries == 2

(***************************************************************************)
(* JavaScript values.  One record shape for every value, so that any two   *)
(* values can be compared.                                                 *)
(***************************************************************************)
Undefined == [t |-> "undefined", b |-> FALSE, n |-> 0, s |-> <<>>, e |-> <<>>]
Null      == [t |-> "null",      b |-> FALSE, n |-> 0, s |-> <<>>, e |-> <<>>]
Bool(b)   == [t |-> "boolean",   b |-> b,     n |-> 0, s |-> <<>>, e |-> <<>>]
Num(n)    == [t |-> "number",    b |-> FALSE, n |-> n, s |-> <<>>, e |-> <<>>]
Str(s)    == [t |-> "string",    b |-> FALSE, n |-> 0, s |-> s,    e |-> <<>>]
Obj(e)    == [t |-> "object",    b |-> FALSE, n |-> 0, s |-> <<>>, e |-> e]
FormData  == [t |-> "formdata",  b |-> FALSE, n |-> 0, s |-> <<>>, e |-> <<>>]
Fn        == [t |-> "function",  b |-> FALSE, n |-> 0, s |-> <<>>, e |-> <<>>]

\* ToBoolean, as used by ||, && and if
Truthy(v) ==
    CASE v.t = "undefined" -> FALSE
      [] v.t = "null"      -> FALSE
      [] v.t = "boolean"   -> v.b
      [] v.t = "number"    -> v.n # 0
      [] v.t = "string"    -> v.s # <<>>
      [] OTHER             -> TRUE

\* a || b
Or(a, b) == IF Truthy(a) THEN a ELSE b

\* typeof v
TypeOf(v) ==
    CASE v.t \in {"null", "object", "formdata"} -> "object"
      [] OTHER -> v.t

\* an optional plain string: a header value, options.method, options.contentType
Absent     == [present |-> FALSE, v |-> ""]
Present(v) == [present |-> TRUE, v |-> v]
TruthyOpt(o) == o.present /\ o.v # ""

(***************************************************************************)
(* String helpers.                                                         *)
(***************************************************************************)
RECURSIVE Join(_, _)
Join(ss, sep) ==
    IF ss = <<>> THEN <<>>
    ELSE IF Len(ss) = 1 THEN Head(ss)
    ELSE Head(ss) \o sep \o Join(Tail(ss), sep)

\* String.prototype.substr(start) for 0 <= start
Substr(s, start) == IF start >= Len(s) THEN <<>> ELSE SubSeq(s, start + 1, Len(s))

DigitChar == <<"0", "1", "2", "3", "4", "5", "6", "7", "8", "9">>

\* String(n) for a non-negative integer
RECURSIVE NumStr(_)
NumStr(n) == IF n < 10 THEN <<DigitChar[n + 1]>>
             ELSE NumStr(n \div 10) \o <<DigitChar[(n % 10) + 1]>>

\* String(v) for the values a body entry holds
ToStr(v) ==
    CASE v.t = "string" -> v.s
      [] v.t = "number" -> NumStr(v.n)
      [] OTHER          -> <<>>

\* String.prototype.toUpperCase on the method names of the model
ToUpperCase(m) ==
    CASE m = "get"  -> "GET"
      [] m = "post" -> "POST"
      [] m = "Put"  -> "PUT"
      [] OTHER      -> m

(***************************************************************************)
(* The platform's codecs, by what they do on the characters of the model.  *)
(***************************************************************************)
\* the characters encodeURIComponent leaves alone, among those of the model
Unreserved == {"a", "b", "0", "1", "2", "3", "4", "5", "6", "7", "8", "9"}

\* encodeURIComponent of one character
EncodeChar(c) ==
    CASE c \in Unreserved -> <<c>>
      [] c = " "          -> <<"%", "2", "0">>
      [] c = "&"          -> <<"%", "2", "6">>
      [] c = "="          -> <<"%", "3", "D">>
      [] c = "\""         -> <<"%", "2", "2">>
      [] OTHER            -> <<"%", "?", "?">>

RECURSIVE encodeURIComponent(_)
encodeURIComponent(s) ==
    IF s = <<>> THEN <<>> ELSE EncodeChar(Head(s)) \o encodeURIComponent(Tail(s))

\* the escape JSON.stringify gives one character of a string
QuoteChar(c) ==
    CASE c = "\"" -> <<"\\", "\"">>
      [] c = "\\" -> <<"\\", "\\">>
      [] OTHER    -> <<c>>

RECURSIVE QuoteChars(_)
QuoteChars(s) == IF s = <<>> THEN <<>> ELSE QuoteChar(Head(s)) \o QuoteChars(Tail(s))

Quote(s) == <<"\"">> \o QuoteChars(s) \o <<"\"">>

\* JSON.stringify of a value held by a body entry
StringifyLeaf(v) ==
    CASE v.t = "string"  -> Quote(v.s)
      [] v.t = "number"  -> NumStr(v.n)
      [] v.t = "boolean" -> IF v.b THEN <<"t", "r", "u", "e">> ELSE <<"f", "a", "l", "s", "e">>
      [] OTHER           -> <<"n", "u", "l", "l">>

\* JSON.stringify of the values typeof calls 'object': null gives "null", an
\* object with no own enumerable string keys (FormData) gives "{}"
JSONstringify(v) ==
    CASE v.t = "null"   -> <<"n", "u", "l", "l">>
      [] v.t = "object" ->
           <<"{">> \o
           Join([i \in 1..Len(v.e) |->
                    Quote(v.e[i].k) \o <<":">> \o StringifyLeaf(v.e[i].v)], <<",">>)
           \o <<"}">>
      [] v.t = "formdata" -> <<"{", "}">>
      [] OTHER -> StringifyLeaf(v)

\* the characters /[\n\r]+/ matches
Newlines == {"\n", "\r"}

\* String.prototype.split(/[\n\r]+/): acc holds the finished pieces, cur the
\* piece being read, i the next character
RECURSIVE SplitFrom(_, _, _, _)
SplitFrom(s, i, acc, cur) ==
    IF i > Len(s) THEN Append(acc, cur)
    ELSE IF s[i] \in Newlines
         THEN IF i > 1 /\ s[i - 1] \in Newlines
              THEN SplitFrom(s, i + 1, acc, cur)
              ELSE SplitFrom(s, i + 1, Append(acc, cur), <<>>)
         ELSE SplitFrom(s, i + 1, acc, Append(cur, s[i]))

Split(s) == SplitFrom(s, 1, <<>>, <<>>)

\* JSON whitespace
JSONSpace == {" ", "\n", "\r", "\t"}

DigitValue(c) == CHOOSE d \in 0..9 : DigitChar[d + 1] = c

IsDigit(c) == \E d \in 0..9 : DigitChar[d + 1] = c

RECURSIVE TrimLeft(_)
TrimLeft(s) == IF s # <<>> /\ Head(s) \in JSONSpace THEN TrimLeft(Tail(s)) ELSE s

RECURSIVE TrimRight(_)
TrimRight(s) ==
    IF s # <<>> /\ s[Len(s)] \in JSONSpace THEN TrimRight(SubSeq(s, 1, Len(s) - 1)) ELSE s

RECURSIVE DecimalValue(_)
DecimalValue(s) ==
    IF s = <<>> THEN 0
    ELSE 10 * DecimalValue(SubSeq(s, 1, Len(s) - 1)) + DigitValue(s[Len(s)])

\* JSON.parse on the texts of the model, whose only JSON documents are the
\* non-negative integers with optional surrounding whitespace.  ok is FALSE
\* where JSON.parse throws a SyntaxError.
JSONparse(s) ==
    LET body == TrimRight(TrimLeft(s))
        ok   == /\ body # <<>>
                /\ \A i \in 1..Len(body) : IsDigit(body[i])
                /\ (Len(body) > 1 => body[1] # "0")
    IN  [ok |-> ok, val |-> IF ok THEN DecimalValue(body) ELSE 0]

(***************************************************************************)
(* The state of one invocation of ajax(options).                           *)
(***************************************************************************)
VARIABLES
    pc,           \* "idle" before the call, "sent" while the transaction is in
                  \* flight, "threw" when the executor threw, "done" after readyState 4
    descriptor,   \* the descriptor as the caller passed it
    options,      \* the descriptor as the call leaves it (headers and data rewritten)
    xhr,          \* the XMLHttpRequest object
    promise,      \* the returned promise, with how often resolve/reject were called
    fault,        \* the error the readystatechange listener threw, "none" if it did not
    cometTimer,   \* [id, active]: the interval timer of Comet mode
    cometLength,  \* length of responseText at the last tick
    lastLine,     \* the line the last tick selected
    lastRead,     \* the responseText the last tick read (history)
    delivered     \* the calls of options.comet so far: the line, its index in the
                  \* split and the length of the buffer it was read from

vars == <<pc, descriptor, options, xhr, promise, fault, cometTimer, cometLength, lastLine, lastRead, delivered>>

NoOptions ==
    [method |-> Absent, async |-> Undefined, data |-> Undefined,
     headers |-> [defined |-> FALSE, map |-> <<>>], contentType |-> Absent,
     comet |-> Undefined]

\* new XMLHttpRequest()
NewXHR ==
    [readyState |-> 0, method |-> "", async |-> FALSE, requestHeaders |-> <<>>,
     sent |-> FALSE, payload |-> Undefined,
     status |-> 0, statusText |-> "", contentType |-> Absent, responseText |-> <<>>,
     hasJSON |-> FALSE, responseJSON |-> 0, hasComet |-> FALSE, responseComet |-> <<>>]

\* new Promise(...): nothing settled; liveTimer records whether the interval
\* timer was still running when the promise was settled
NewPromise == [state |-> "pending", message |-> "", calls |-> 0, liveTimer |-> FALSE]

NoTimer == [id |-> FALSE, active |-> FALSE]

Init ==
    /\ pc = "idle"
    /\ descriptor = NoOptions
    /\ options = NoOptions
    /\ xhr = NewXHR
    /\ promise = NewPromise
    /\ fault = "none"
    /\ cometTimer = NoTimer
    /\ cometLength = 0
    /\ lastLine = Null
    /\ lastRead = <<>>
    /\ delivered = <<>>

(***************************************************************************)
(* The promise: resolve and reject settle it once, later calls do nothing. *)
(***************************************************************************)
Settle(p, state, message, timer) ==
    IF p.state = "pending"
    THEN [state |-> state, message |-> message, calls |-> p.calls + 1,
          liveTimer |-> timer.active]
    ELSE [p EXCEPT !.calls = @ + 1]

(***************************************************************************)
(* The readystatechange listener.                                          *)
(***************************************************************************)
\* this.readyState === 4
IsDone(x) == x.readyState = 4

\* variant of StatusOK: the upper end of the range is not tested
StatusOKNoUpper(status) == status >= 200

\* this.status >= 200 && this.status <= 299
StatusOK(status) == status >= 200 /\ status <= 299

\* variant of IsJSONResponse: any application/json media type, parameters allowed
IsJSONResponseLoose(x) ==
    x.contentType \in {Present("application/json"),
                       Present("application/json; charset=utf-8")}

\* this.getResponseHeader('Content-Type') == 'application/json'
IsJSONResponse(x) == x.contentType = Present("application/json")

\* variant of ClearInterval: the timer is left running
ClearIntervalMissing(timer) == timer

\* clearInterval(cometTimer)
ClearInterval(timer) == [timer EXCEPT !.active = FALSE]

\* variant of CometTail: the whole response text
CometTailWhole(text, len) == Substr(text, 0)

\* this.responseText.substr(cometLength)
CometTail(text, len) == Substr(text, len)

\* variant of ParseFault: the parse error is caught and rejects the promise
ParseFaultRejects(x, p, timer) ==
    [xhr |-> x, promise |-> Settle(p, "rejected", "SyntaxError", timer),
     timer |-> timer, fault |-> "none"]

\* JSON.parse threw inside the listener: the listener ends there, the error
\* goes to the host, resolve and reject are not reached
ParseFault(x, p, timer) ==
    [xhr |-> x, promise |-> p, timer |-> timer, fault |-> "SyntaxError"]

\* the listener, run on every readystatechange event with this = x
OnReadyStateChange(x, p, timer, len) ==
    IF ~IsDone(x)
    THEN [xhr |-> x, promise |-> p, timer |-> timer, fault |-> "none"]
    ELSE
      LET t1 == IF timer.id THEN ClearInterval(timer) ELSE timer
          x1 == IF timer.id
                THEN [x EXCEPT !.hasComet = TRUE,
                               !.responseComet = CometTail(x.responseText, len)]
                ELSE x
          parsed == JSONparse(x1.responseText)
      IN  IF StatusOK(x1.status)
          THEN IF IsJSONResponse(x1)
               THEN IF parsed.ok
                    THEN [xhr |-> [x1 EXCEPT !.hasJSON = TRUE, !.responseJSON = parsed.val],
                          promise |-> Settle(p, "resolved", "", t1),
                          timer |-> t1, fault |-> "none"]
                    ELSE ParseFault(x1, p, t1)
               ELSE [xhr |-> x1, promise |-> Settle(p, "resolved", "", t1),
                     timer |-> t1, fault |-> "none"]
          ELSE [xhr |-> x1, promise |-> Settle(p, "rejected", x1.statusText, t1),
                timer |-> t1, fault |-> "none"]

(***************************************************************************)
(* The call: ajax(options).                                                *)
(***************************************************************************)
\* variant of AsyncFlag: options.async ?? true
AsyncFlagNullish(o) == IF o.async.t \in {"undefined", "null"} THEN TRUE ELSE Truthy(o.async)

\* options.async || true, as xhr.open takes it (converted to a boolean)
AsyncFlag(o) == Truthy(Or(o.async, Bool(TRUE)))

\* (options.method || 'GET').toUpperCase()
Method(o) == ToUpperCase(IF TruthyOpt(o.method) THEN o.method.v ELSE "GET")

\* options.headers after the defaulting and the contentType shorthand
Headers(o) ==
    LET h == IF o.headers.defined THEN o.headers.map ELSE <<>>
    IN  IF TruthyOpt(o.contentType)
        THEN [k \in DOMAIN h \cup {"Content-Type"} |->
                 IF k = "Content-Type" THEN o.contentType.v ELSE h[k]]
        ELSE h

\* options.headers['Content-Type'] == 'application/json'
IsJSONRequest(h) == "Content-Type" \in DOMAIN h /\ h["Content-Type"] = "application/json"

\* Object.entries(data).map(...).join('&')
UrlEncode(data) ==
    Join([i \in 1..Len(data.e) |->
             encodeURIComponent(data.e[i].k) \o <<"=">>
             \o encodeURIComponent(ToStr(data.e[i].v))], <<"&">>)

\* the two serialisation branches; threw when Object.entries(null) throws
SerializeData(data, h) ==
    IF TypeOf(data) = "object" /\ IsJSONRequest(h)
    THEN [threw |-> FALSE, data |-> Str(JSONstringify(data))]
    ELSE IF TypeOf(data) = "object" /\ data.t # "formdata"
         THEN IF data.t = "null"
              THEN [threw |-> TRUE, data |-> data]
              ELSE [threw |-> FALSE, data |-> Str(UrlEncode(data))]
         ELSE [threw |-> FALSE, data |-> data]

\* options.comet && options.comet.constructor === Function
CometMode(o) == Truthy(o.comet) /\ o.comet.t = "function"

Ajax(o) ==
    /\ pc = "idle"
    /\ descriptor' = o
    /\ LET opened == [NewXHR EXCEPT !.readyState = 1, !.method = Method(o),
                                    !.async = AsyncFlag(o)]
           \* open() fires readystatechange with readyState 1
           r   == OnReadyStateChange(opened, NewPromise, NoTimer, 0)
           h   == Headers(o)
           ser == SerializeData(o.data, h)
           x1  == [r.xhr EXCEPT !.requestHeaders = h]
           timer == IF CometMode(o) THEN [id |-> TRUE, active |-> TRUE] ELSE r.timer
       IN  IF ser.threw
           THEN \* the executor threw: the promise rejects, nothing is sent
                /\ pc' = "threw"
                /\ options' = [o EXCEPT !.headers = [defined |-> TRUE, map |-> h]]
                /\ xhr' = x1
                /\ promise' = Settle(r.promise, "rejected", "TypeError", r.timer)
                /\ cometTimer' = r.timer
           ELSE /\ pc' = "sent"
                /\ options' = [o EXCEPT !.headers = [defined |-> TRUE, map |-> h],
                                        !.data = ser.data]
                /\ xhr' = [x1 EXCEPT !.sent = TRUE, !.payload = Or(ser.data, Null)]
                /\ promise' = r.promise
                /\ cometTimer' = timer
    /\ fault' = "none"
    /\ UNCHANGED <<cometLength, lastLine, lastRead, delivered>>

(***************************************************************************)
(* The Comet reader: one run of the setInterval callback.                  *)
(***************************************************************************)
\* variant of SelectLine: lines[lines.length-1]
SelectLast(lines) == Str(lines[Len(lines)])

\* lines[lines.length-2], undefined when the split has fewer than two elements
SelectLine(lines) ==
    IF Len(lines) >= 2 THEN Str(lines[Len(lines) - 1]) ELSE Undefined

\* variant of IsNewLine: the comparison with the last line is dropped
IsNewLineAlways(line, last) == Truthy(line)

\* line && line !== lastLine
IsNewLine(line, last) == Truthy(line) /\ line # last

\* cometLength = xhr.responseText.length
FlushedLength(text) == Len(text)

Tick ==
    /\ cometTimer.active
    /\ LET text  == xhr.responseText
           lines == Split(text)
           line  == SelectLine(lines)
       IN  /\ cometLength' = FlushedLength(text)
           /\ delivered' = IF IsNewLine(line, lastLine)
                           THEN Append(delivered,
                                       [line |-> line.s, index |-> Len(lines) - 1,
                                        read |-> text])
                           ELSE delivered
           /\ lastLine' = line
           /\ lastRead' = text
    /\ UNCHANGED <<pc, descriptor, options, xhr, promise, fault, cometTimer>>

(***************************************************************************)
(* The transport: the events the XMLHttpRequest object raises after send.  *)
(* Every one of them runs the readystatechange listener.                   *)
(***************************************************************************)
StatusText(status) ==
    CASE status = 199 -> "Early"
      [] status = 200 -> "OK"
      [] status = 299 -> "Odd"
      [] status = 300 -> "Multiple Choices"
      [] status = 404 -> "Not Found"
      [] OTHER        -> ""

Fire(x) ==
    LET r == OnReadyStateChange(x, promise, cometTimer, cometLength)
    IN  /\ xhr' = r.xhr
        /\ promise' = r.promise
        /\ cometTimer' = r.timer
        /\ fault' = r.fault
        /\ pc' = IF IsDone(x) THEN "done" ELSE pc

\* readyState 2: status line and headers are in
HeadersReceived(status, ct) ==
    /\ pc = "sent"
    /\ xhr.readyState = 1
    /\ Fire([xhr EXCEPT !.readyState = 2, !.status = status,
                        !.statusText = StatusText(status), !.contentType = ct])
    /\ UNCHANGED <<descriptor, options, cometLength, lastLine, lastRead, delivered>>

\* readyState 3: one more character of the body is appended to responseText
Progress(c) ==
    /\ pc = "sent"
    /\ xhr.readyState \in {2, 3}
    /\ Len(xhr.responseText) < MaxLen
    /\ Fire([xhr EXCEPT !.readyState = 3, !.responseText = Append(@, c)])
    /\ UNCHANGED <<descriptor, options, cometLength, lastLine, lastRead, delivered>>

\* readyState 4: the transaction is complete
Done ==
    /\ pc = "sent"
    /\ xhr.readyState \in {2, 3}
    /\ Fire([xhr EXCEPT !.readyState = 4])
    /\ UNCHANGED <<descriptor, options, cometLength, lastLine, lastRead, delivered>>

(***************************************************************************)
(* Inputs.                                                                 *)
(***************************************************************************)
Statuses == {199, 200, 299, 300}

ContentTypes ==
    {Absent, Present("application/json"), Present("application/json; charset=utf-8")}

\* the characters of a response body
Chars == {"a", "1", "\n", "\r"}

\* descriptors that differ in the Comet option only
CometDescriptors ==
    {[NoOptions EXCEPT !.comet = c] : c \in {Undefined, Fn, Bool(TRUE)}}

Next ==
    \/ \E o \in CometDescriptors : Ajax(o)
    \/ \E st \in Statuses, ct \in ContentTypes : HeadersReceived(st, ct)
    \/ \E c \in Chars : Progress(c)
    \/ Done
    \/ Tick

Spec == Init /\ [][Next]_vars

(***************************************************************************)
(* Request descriptors of every body kind, for the request-side claims.    *)
(***************************************************************************)
Keys == {<<"a">>, <<"&">>}

Values == {Str(<<"a", " ">>), Num(2)}

\* the entry lists of plain objects: own keys are distinct, order is kept
EntryLists ==
    {e \in UNION {[1..n -> [k : Keys, v : Values]] : n \in 0..MaxEntries} :
        \A i, j \in 1..Len(e) : i # j => e[i].k # e[j].k}

Bodies ==
    {Undefined, Null, Str(<<>>), Str(<<"a", "=">>), FormData}
    \cup {Obj(e) : e \in EntryLists}

HeaderMaps ==
    {[defined |-> FALSE, map |-> <<>>],
     [defined |-> TRUE, map |-> ("Content-Type" :> "application/json")],
     [defined |-> TRUE, map |-> ("Content-Type" :> "text/plain")]}

RequestDescriptors ==
    [method : {Absent, Present("post")},
     async : {Undefined, Bool(FALSE), Bool(TRUE)},
     data : Bodies,
     headers : HeaderMaps,
     contentType : {Absent, Present("application/json"), Present("multipart/form-data")},
     comet : {Undefined, Fn}]

NextRequest ==
    \/ \E o \in RequestDescriptors : Ajax(o)
    \/ \E st \in {200, 404} : HeadersReceived(st, Absent)
    \/ Progress("1")
    \/ Done
    \/ Tick

SpecRequest == Init /\ [][NextRequest]_vars

(***************************************************************************)
(* Properties.                                                             *)
(***************************************************************************)
InRange2xx == 200 <= xhr.status /\ xhr.status <= 299

JSONDeclared == xhr.contentType = Present("application/json")

\* the characters of s that are not JSON whitespace
RECURSIVE Unspaced(_)
Unspaced(s) ==
    IF s = <<>> THEN <<>>
    ELSE IF Head(s) \in JSONSpace THEN Unspaced(Tail(s))
    ELSE <<Head(s)>> \o Unspaced(Tail(s))

\* a is b with some elements left out, order kept
RECURSIVE IsSubsequence(_, _)
IsSubsequence(a, b) ==
    IF a = <<>> THEN TRUE
    ELSE IF b = <<>> THEN FALSE
    ELSE IF Head(a) = Head(b) THEN IsSubsequence(Tail(a), Tail(b))
    ELSE IsSubsequence(a, Tail(b))

\* line stands in text as a whole line with a newline character after it
IsTerminatedLineOf(line, text) ==
    \E p \in 1..Len(text) :
        /\ p + Len(line) <= Len(text)
        /\ SubSeq(text, p, p + Len(line) - 1) = line
        /\ text[p + Len(line)] \in Newlines
        /\ (p = 1 \/ text[p - 1] \in Newlines)

\* C1: once the transaction has reached readyState 4, whatever the status,
\* the Content-Type and the body, exactly one of resolve and reject has been
\* called, exactly once: the promise is settled.
C1_SettlesExactlyOnce ==
    pc = "done" => promise.state \in {"resolved", "rejected"} /\ promise.calls = 1

\* C2: in Comet mode the interval timer is cancelled before the promise is
\* resolved or rejected, and once the transaction is complete no tick runs:
\* the reader's state stays as it is and the callback is not called again.
C2_TimerCancelledBeforeSettle ==
    /\ [](promise.state # "pending" => ~promise.liveTimer)
    /\ [](pc = "done" => ~cometTimer.active)
    /\ [][pc = "done" => UNCHANGED <<cometLength, lastLine, lastRead, delivered>>]_vars

C2_Witness ==
    /\ pc = "done"
    /\ CometMode(descriptor)
    /\ promise.state = "resolved"
    /\ delivered # <<>>
    /\ cometLength < Len(xhr.responseText)

\* C3: the callback is called at most once for each completed line of the
\* stream (the positions of the delivered lines in the split strictly
\* increase), never with the same line in two calls in a row, and only with
\* a line that the buffer it was read from already ends with a newline.
C3_OncePerCompletedLine ==
    /\ \A i, j \in 1..Len(delivered) :
          i < j => delivered[i].index < delivered[j].index
    /\ \A i \in 1..Len(delivered) - 1 : delivered[i].line # delivered[i + 1].line
    /\ \A i \in 1..Len(delivered) :
          /\ delivered[i].index < Len(Split(delivered[i].read))
          /\ IsTerminatedLineOf(delivered[i].line, delivered[i].read)
          /\ Split(xhr.responseText)[delivered[i].index] = delivered[i].line

\* a line was delivered, and a later tick read a longer buffer whose last
\* piece is an unfinished line: it delivered nothing
C3_Witness ==
    /\ Len(delivered) = 1
    /\ lastRead = xhr.responseText
    /\ Len(lastRead) > Len(delivered[1].read)
    /\ LET lines == Split(lastRead) IN lines[Len(lines)] # <<>>

\* C4: at completion in Comet mode responseComet is the response text from
\* the offset the last tick recorded (0 without a tick), so the text the
\* last tick read followed by responseComet is the response text; without
\* Comet mode no responseComet is attached.
C4_CometTail ==
    pc = "done" =>
        IF CometMode(descriptor)
        THEN /\ xhr.hasComet
             /\ Len(xhr.responseComet) = Len(xhr.responseText) - cometLength
             /\ \A i \in 1..Len(xhr.responseComet) :
                   xhr.responseComet[i] = xhr.responseText[cometLength + i]
             /\ lastRead \o xhr.responseComet = xhr.responseText
        ELSE ~xhr.hasComet

C4_Witness ==
    /\ pc = "done"
    /\ xhr.hasComet
    /\ cometLength > 0
    /\ xhr.responseComet # <<>>

\* C5: a final status outside 200..299 rejects the promise with the status
\* text as message, whatever the body and the Content-Type; a final status
\* inside 200..299 never rejects it.
C5_RejectsOutside2xx ==
    pc = "done" =>
        IF InRange2xx
        THEN promise.state # "rejected"
        ELSE promise.state = "rejected" /\ promise.message = xhr.statusText

C5_Witness ==
    /\ pc = "done"
    /\ xhr.status = 300
    /\ JSONDeclared
    /\ xhr.responseText # <<>>
    /\ promise.state = "rejected"
    /\ promise.message = "Multiple Choices"

\* the payload the precedence of C6 gives a body under the request headers h
ExpectedPayload(data, h) ==
    IF data.t = "object" /\ IsJSONRequest(h) THEN Str(JSONstringify(data))
    ELSE IF data.t = "object" THEN Str(UrlEncode(data))
    ELSE IF data.t = "undefined" THEN Null
    ELSE data

\* C6: the payload passed to send is the JSON text of the body only for a
\* non-null, non-FormData object under Content-Type application/json; else
\* the URL-encoded pairs for a non-null, non-FormData object; else the body
\* unchanged, null when absent.  (Payloads are compared as send takes them:
\* the empty string and null both send no body.)
C6_PayloadPrecedence ==
    pc # "idle" =>
        /\ xhr.sent
        /\ Or(xhr.payload, Null)
             = Or(ExpectedPayload(descriptor.data, xhr.requestHeaders), Null)

\* C7: the resolved request carries responseJSON exactly when the response
\* Content-Type is application/json (the status then being in 200..299),
\* responseJSON is then the number the body spells, and no request outside
\* that case carries responseJSON.
C7_ResponseJSON ==
    pc = "done" =>
        /\ promise.state = "resolved" => (xhr.hasJSON <=> JSONDeclared)
        /\ xhr.hasJSON =>
              /\ InRange2xx /\ JSONDeclared
              /\ promise.state = "resolved"
              /\ NumStr(xhr.responseJSON) = Unspaced(xhr.responseText)

C7_Witness ==
    /\ pc = "done"
    /\ promise.state = "resolved"
    /\ xhr.hasJSON
    /\ xhr.responseJSON = 11
    /\ Len(xhr.responseText) > 2

\* C8: with a status in 200..299, Content-Type application/json and a body
\* that is no JSON text, the listener throws: neither resolve nor reject is
\* called, yet in Comet mode the timer is already cancelled and
\* responseComet already set.
C8_ParseFaultLeavesPending ==
    (pc = "done" /\ InRange2xx /\ JSONDeclared /\ ~JSONparse(xhr.responseText).ok) =>
        /\ promise.state = "pending"
        /\ promise.calls = 0
        /\ fault = "SyntaxError"
        /\ ~xhr.hasJSON
        /\ CometMode(descriptor) =>
              /\ ~cometTimer.active
              /\ xhr.hasComet
              /\ lastRead \o xhr.responseComet = xhr.responseText

C8_Witness ==
    /\ pc = "done"
    /\ fault = "SyntaxError"
    /\ CometMode(descriptor)
    /\ cometLength > 0
    /\ xhr.status = 299

CompleteLines(text) == LET lines == Split(text) IN SubSeq(lines, 1, Len(lines) - 1)

\* C10: the recorded offset never decreases and never exceeds the length of
\* the buffer, and the lines passed to the callback are, in order, among
\* the newline-terminated lines of the response text.
C10_OffsetAndOrder ==
    /\ [](cometLength <= Len(xhr.responseText))
    /\ [][cometLength' >= cometLength]_vars
    /\ [](IsSubsequence([i \in 1..Len(delivered) |-> delivered[i].line],
                        CompleteLines(xhr.responseText)))

C10_Witness ==
    /\ pc = "done"
    /\ Len(delivered) = 2
    /\ cometLength = Len(xhr.responseText)

====
